---- MODULE Spec2Model ----
(***************************************************************************)
(* Chat session controller of the aura-ai client (src/src/pages/Chat.jsx). *)
(* The file holds two variants of the Chat page: the typed variant (form   *)
(* submit, lines 7-463) and the voice variant (speech recognition and      *)
(* text-to-speech, lines 474-1039).  Both are modelled; Init chooses one.  *)
(*                                                                         *)
(* A handler of a React function component reads the state of the render   *)
(* in which it was created.  Handlers run from the DOM are those of the    *)
(* latest render, so they read the current state.  A continuation after an *)
(* await, and a callback registered earlier (recognition.onend), keeps the *)
(* state of the render that created it: the model stores those values in   *)
(* the record of the operation in flight (the fields named closure...).    *)
(* Functional updates (setMessages(prev => ...)) apply to the current      *)
(* state.  The backend, the speech recogniser and the audio player are the *)
(* environment: their answers are drawn from bounded sets.  Leaving the    *)
(* route unmounts the page: React discards its state and the pending       *)
(* promises are abandoned.  The text field of the typed variant is the     *)
(* text it holds when the form is submitted.                               *)
(***************************************************************************)
EXTENDS Naturals, Sequences, FiniteSets, TLC

\* ---------------------------------------------------------------- bounds
MaxLen == 1
MaxSends == 2
MaxCreates == 1
MaxRecordings == 2
\* chat selections, chat creations and sends (recordings, for the voice
\* variant) started during one visit of the page
MaxOps == 2

\* ---------------------------------------------------------------- values
\* An optional value (null / undefined, or a value): <<>> or <<v>>.
Null == <<>>
Some(v) == <<v>>
Get(o) == o[1]

Chars == {" ", "a"}

RECURSIVE TextsOfLen(_)
TextsOfLen(n) ==
    IF n = 0 THEN {<<>>}
    ELSE {Append(t, c) : t \in TextsOfLen(n - 1), c \in Chars}

\* The texts a user can type.
Texts == UNION {TextsOfLen(n) : n \in 0..MaxLen}

RECURSIVE TrimStart(_)
TrimStart(s) ==
    IF s = <<>> THEN s
    ELSE IF Head(s) = " " THEN TrimStart(Tail(s)) ELSE s

RECURSIVE TrimEnd(_)
TrimEnd(s) ==
    IF s = <<>> THEN s
    ELSE IF s[Len(s)] = " " THEN TrimEnd(SubSeq(s, 1, Len(s) - 1)) ELSE s

\* String.prototype.trim
Trim(s) == TrimEnd(TrimStart(s))

\* A JavaScript value used as a condition: "undefined", "null" and the empty
\* string are falsy, every array (the empty one too) is truthy.
Falsy(v) == v \in {"undefined", "null", ""}

\* a || b
Or(a, b) == IF Falsy(a) THEN b ELSE a

\* the length of a product array
ArrayLength(v) == IF v = "[]" THEN 0 ELSE 1

\* ----------------------------------------------------------------- users
UserRecords ==
    [username : {"", "alice"}, user_id : {"", "u1"},
     photo_urls : {"undefined", "[]", "[p]"}]

\* The values localStorage.getItem('user') can have: null or a user record.
StoredUsers ==
    {Null} \cup
    {Some(u) : u \in {r \in UserRecords :
                        \/ r.photo_urls = "[p]"
                        \/ r.username = "alice" /\ r.user_id = "u1"}}

\* user.user_id || `user_${user.username}`
UserIdOf(u) == IF u.user_id # "" THEN u.user_id ELSE "user_" \o u.username

\* -------------------------------------------------------------- messages
Msg(role, content, ranked, styled, products, merged) ==
    [role |-> role, content |-> content, ranked_products |-> ranked,
     styled_products |-> styled, products |-> products,
     merged_images |-> merged]

\* { role: 'user', content: messageText }
UserMsg(text) ==
    Msg("user", text, "undefined", "undefined", "undefined", "undefined")

\* { role: 'assistant', content: ... } of the catch blocks
PlainAssistantMsg(content) ==
    Msg("assistant", content, "undefined", "undefined", "undefined",
        "undefined")

PhotoNeedle == "upload at least one photo"

PhotoExplanation ==
    <<"Please upload at least one photo in your dashboard before starting a chat. This helps us personalize product recommendations for you.">>

SendFallback == <<"Failed to send message. Please try again.">>

\* error.message.includes('upload at least one photo'); an error message is
\* a sequence of fragments and the needle is one fragment.
Includes(message, needle) == \E i \in 1..Len(message) : message[i] = needle

\* `Error: ${error.message || 'Failed to send message. Please try again.'}`
ErrorContent(message) ==
    <<"Error: ">> \o (IF message = <<>> THEN SendFallback ELSE message)

\* ----------------------------------------------------------------- chats
Chat(room, id, cid, msgs) ==
    [chat_room_id |-> room, id |-> id, chat_id |-> cid, messages |-> msgs]

\* activeChat.chat_room_id || activeChat.id || activeChat.chat_id
\* (0 stands for a missing identifier)
ThreadIdOf(chat) ==
    IF chat.chat_room_id # 0 THEN chat.chat_room_id
    ELSE IF chat.id # 0 THEN chat.id ELSE chat.chat_id

\* The messages a chat carries are ignored.
MessagesOf_Empty(chat) == <<>>

\* chat.messages || []
MessagesOf(chat) == IF chat.messages = Null THEN <<>> ELSE Get(chat.messages)

\* A message of the server's history.
ServerMsg == Msg("assistant", <<"h">>, "undefined", "undefined", "undefined",
                 "undefined")

\* The chats the backend holds, and the chat createChat answers with.
ChatA == Chat(0, 1, 0, Null)
ChatB == Chat(7, 2, 0, Some(<<ServerMsg>>))
ChatC == Chat(0, 0, 3, Null)

\* A JSON value where the code expects an array: an array or something else.
Array(items) == [isArray |-> TRUE, items |-> items]
NotAnArray == [isArray |-> FALSE, items |-> <<>>]

\* ------------------------------------------------- the backend's answers
\* What a getChats call settles with: a rejection, or the parsed JSON body.
GetChatsResults ==
    {[ok |-> FALSE, data |-> NotAnArray],
     [ok |-> TRUE, data |-> NotAnArray],
     [ok |-> TRUE, data |-> Array(<<>>)],
     [ok |-> TRUE, data |-> Array(<<ChatA, ChatB>>)]}

\* What a getChats call of this visit settles with.  The user either has
\* chats on the server ("chats": any of the results above), or has none
\* ("nochats"): the call fails or answers with the empty list, and with the
\* list of the new chat once the user has asked for one.
GetChatsAnswers(s, created) ==
    IF s = "chats" THEN GetChatsResults
    ELSE {[ok |-> FALSE, data |-> NotAnArray],
          [ok |-> TRUE, data |-> Array(<<>>)]} \cup
         (IF created > 0 THEN {[ok |-> TRUE, data |-> Array(<<ChatC>>)]}
          ELSE {})

\* What a createChat call settles with: a rejection or the new chat.
CreateChatResults == {[ok |-> FALSE, chat |-> ChatC], [ok |-> TRUE, chat |-> ChatC]}

SendResult(kind, response, ranked, styled, message) ==
    [kind |-> kind, response |-> response, ranked_products |-> ranked,
     styled_products |-> styled, merged_images |-> "undefined",
     message |-> message]

\* What a sendChatMessage call settles with: a JSON object (kind "json"), the
\* JSON value null (kind "null"), or a rejection with an error message.
\* During one visit of the page the backend is either one that attaches
\* product lists to its replies ("products"), or one that replies with text
\* only and may fail ("plain").
SendResults(b) ==
    IF b = "products"
    THEN {SendResult("json", <<"r">>, "[r]", "[s]", <<>>),
          SendResult("json", <<"r">>, "undefined", "[s]", <<>>),
          SendResult("json", <<"r">>, "[]", "[s]", <<>>)}
    ELSE {SendResult("json", <<"r">>, "undefined", "undefined", <<>>),
          SendResult("json", <<>>, "[r]", "[s]", <<>>),
          SendResult("null", <<>>, "undefined", "undefined", <<>>),
          SendResult("error", <<>>, "undefined", "undefined", <<"boom">>),
          SendResult("error", <<>>, "undefined", "undefined",
                     <<"Please ", PhotoNeedle, " first">>)}

\* ------------------------------------------------------------ API client
\* The functions of the API client (JoinRoom.jsx lines 191-627) that post a
\* request to the backend.
ApiFunctions ==
    {"login", "getUploadUrl", "getImageUrl", "uploadImageViaProxy",
     "deletePhoto", "updateUser", "likeImage", "createChat", "getChats",
     "sendChatMessage"}

\* How each function checks its arguments, in order:
\*   "trimmed"  if (!x || !x.trim()) throw
\*   "truthy"   if (!x) throw
\*   "file"     if (!file || !(file instanceof File)) throw
\*   "fields"   if (!fields || Object.keys(fields).length === 0) throw
\*   "optional" not checked
\* createChat's argument is chatData.user_id of a chatData object.
ApiParams(fn) ==
    CASE fn = "login" -> <<"trimmed">>
      [] fn = "getUploadUrl" -> <<"trimmed", "trimmed", "trimmed">>
      [] fn = "getImageUrl" -> <<"trimmed", "optional">>
      [] fn = "uploadImageViaProxy" -> <<"trimmed", "file">>
      [] fn = "deletePhoto" -> <<"trimmed", "trimmed">>
      [] fn = "updateUser" -> <<"trimmed", "fields">>
      [] fn = "likeImage" -> <<"trimmed", "trimmed">>
      [] fn = "createChat" -> <<"truthy">>
      [] fn = "getChats" -> <<"trimmed">>
      [] fn = "sendChatMessage" -> <<"trimmed", "truthy", "optional">>

\* The message of the Error thrown for the i-th argument.
RequiredMessage(fn, i) ==
    CASE fn = "createChat" -> <<"User ID is required to create a chat">>
      [] fn = "getChats" -> <<"User ID is required">>
      [] fn = "sendChatMessage" ->
           IF i = 1 THEN <<"Message is required">> ELSE <<"User ID is required">>
      [] OTHER ->
           IF i = 1 THEN <<"Username is required">>
           ELSE IF fn = "getUploadUrl"
           THEN IF i = 2 THEN <<"File name is required">>
                ELSE <<"File type is required">>
           ELSE IF fn = "uploadImageViaProxy" THEN <<"File is required">>
           ELSE IF fn = "deletePhoto" THEN <<"S3 key is required">>
           ELSE IF fn = "updateUser"
           THEN <<"At least one field is required for update">>
           ELSE <<"Image ID is required">>

\* Whether the function reads errorData.detail before errorData.message.
ReadsDetail(fn) == fn \notin {"login", "likeImage", "createChat"}

\* The text before response.statusText in the fallback message.
FailurePrefix(fn) ==
    CASE fn = "login" -> "Login failed: "
      [] fn = "getUploadUrl" -> "Failed to get upload URL: "
      [] fn = "getImageUrl" -> "Failed to get image URL: "
      [] fn = "uploadImageViaProxy" -> "Upload failed: "
      [] fn = "deletePhoto" -> "Failed to delete photo: "
      [] fn = "updateUser" -> "Update failed: "
      [] fn = "likeImage" -> "Like failed: "
      [] fn = "createChat" -> "Failed to create chat: "
      [] fn = "getChats" -> "Failed to fetch chats: "
      [] fn = "sendChatMessage" -> "Failed to send message: "

\* The message of the Error thrown for a caught value that is not an Error.
NetworkMessage(fn) ==
    CASE fn = "uploadImageViaProxy" -> <<"Network error: ", "Failed to upload image">>
      [] fn = "deletePhoto" -> <<"Network error: ", "Failed to delete photo">>
      [] fn = "sendChatMessage" -> <<"Network error: ", "Failed to send message">>
      [] OTHER -> <<"Network error: ", "Failed to connect to server">>

\* The values an argument of each kind is drawn from.  A text is a sequence
\* of characters; a file is <<"File">> or missing; fields is the sequence of
\* the keys of the object.
ArgValues(kind) ==
    CASE kind = "file" -> {<<>>, <<"File">>}
      [] kind = "fields" -> {<<>>, <<"region">>}
      [] OTHER -> Texts

\* The argument lists a function can be called with.
ArgLists(fn) ==
    {args \in [1..Len(ApiParams(fn)) ->
                  UNION {ArgValues(k) : k \in {"trimmed", "file", "fields"}}] :
        \A i \in 1..Len(ApiParams(fn)) :
            args[i] \in ArgValues(ApiParams(fn)[i])}

\* Whether the check of an argument of this kind throws.
ArgRejected(kind, v) ==
    CASE kind = "trimmed" -> v = <<>> \/ Trim(v) = <<>>
      [] kind = "truthy" -> v = <<>>
      [] kind = "file" -> v # <<"File">>
      [] kind = "fields" -> Len(v) = 0
      [] kind = "optional" -> FALSE

\* The arguments whose check throws.
RejectedArgs(fn, args) ==
    {i \in 1..Len(ApiParams(fn)) : ArgRejected(ApiParams(fn)[i], args[i])}

\* An error: its constructor and its message.
Err(type, message) == [type |-> type, message |-> message]

\* The JSON body of an error response: whether response.json() parses it,
\* whether it is the value null, and its detail and message fields (Null:
\* the field is absent).
ErrorBody(parses, isNull, detail, message) ==
    [parses |-> parses, isNull |-> isNull, detail |-> detail,
     message |-> message]

ErrorBodies ==
    {ErrorBody(FALSE, FALSE, Null, Null),
     ErrorBody(TRUE, TRUE, Null, Null),
     ErrorBody(TRUE, FALSE, Null, Null),
     ErrorBody(TRUE, FALSE, Null, Some(<<"m">>)),
     ErrorBody(TRUE, FALSE, Null, Some(<<>>)),
     ErrorBody(TRUE, FALSE, Some(<<"d">>), Null),
     ErrorBody(TRUE, FALSE, Some(<<"d">>), Some(<<"m">>))}

StatusTexts == {"", "Bad Request"}

\* What the fetch of a call ends with: a rejection (the browser rejects with
\* a TypeError; a value that is not an Error comes from a replaced fetch),
\* a response with a non-success status, or a response with a success status
\* whose body parses or does not.
HttpOutcomes ==
    {[kind |-> "rejected", isError |-> b, statusText |-> "",
      body |-> ErrorBody(FALSE, FALSE, Null, Null)] : b \in BOOLEAN}
    \cup {[kind |-> "status", isError |-> FALSE, statusText |-> t,
           body |-> e] : t \in StatusTexts, e \in ErrorBodies}
    \cup {[kind |-> "ok", isError |-> FALSE, statusText |-> "OK",
           body |-> ErrorBody(b, FALSE, Null, Null)] : b \in BOOLEAN}

\* a field of errorData as a condition and a value: missing fields and empty
\* strings are falsy
FieldOr(field, rest) ==
    IF field # Null /\ Get(field) # <<>> THEN Get(field) ELSE rest

\* The message field is read before the detail field.
StatusError_MessageFirst(fn, http) ==
    IF http.body.parses /\ http.body.isNull
    THEN Err("TypeError", <<"Cannot read properties of null">>)
    ELSE LET detail == IF http.body.parses /\ ReadsDetail(fn)
                       THEN http.body.detail ELSE Null
             message == IF http.body.parses THEN http.body.message ELSE Null
         IN Err("Error",
                FieldOr(message,
                        FieldOr(detail, <<FailurePrefix(fn), http.statusText>>)))

\* The error thrown for a response with a non-success status (for example
\* lines 615-618): errorData is the parsed body, or {} when it does not
\* parse; reading a field of null throws a TypeError.
StatusError(fn, http) ==
    IF http.body.parses /\ http.body.isNull
    THEN Err("TypeError", <<"Cannot read properties of null">>)
    ELSE LET detail == IF http.body.parses /\ ReadsDetail(fn)
                       THEN http.body.detail ELSE Null
             message == IF http.body.parses THEN http.body.message ELSE Null
         IN Err("Error",
                FieldOr(detail,
                        FieldOr(message, <<FailurePrefix(fn), http.statusText>>)))

\* The error the catch block of a function throws for a rejected fetch (for
\* example lines 621-626).
CaughtError(fn, http) ==
    IF http.isError THEN Err("TypeError", <<"Failed to fetch">>)
    ELSE Err("Error", NetworkMessage(fn))

\* How a call settles: whether a request was issued, and the value or the
\* error.
ApiResult(requested, ok, error) ==
    [requested |-> requested, ok |-> ok, error |-> error]

\* The outcome of a call whose arguments fail a check, or Null.
ApiValidation(fn, args) ==
    IF RejectedArgs(fn, args) = {} THEN Null
    ELSE Some(ApiResult(FALSE, FALSE,
              Err("Error",
                  RequiredMessage(fn, CHOOSE i \in RejectedArgs(fn, args) :
                      \A j \in RejectedArgs(fn, args) : i <= j))))

\* The outcome of a call whose request ended with http.
ApiResponse(fn, http) ==
    IF http.kind = "rejected" THEN ApiResult(TRUE, FALSE, CaughtError(fn, http))
    ELSE IF http.kind = "status"
    THEN ApiResult(TRUE, FALSE, StatusError(fn, http))
    ELSE IF http.body.parses THEN ApiResult(TRUE, TRUE, Err("none", <<>>))
    ELSE ApiResult(TRUE, FALSE, Err("SyntaxError", <<"Unexpected token">>))

\* ----------------------------------------------------------------- state
VARIABLES
    variant,        \* "typed" or "voice": which Chat page is mounted
    backend,        \* "plain" or "products": what the backend replies with
    stored,         \* localStorage item 'user'
    server,         \* "chats" or "nochats": what the server holds for the user
    location,       \* the route shown; the Chat page lives while it is "/chat"
    effects,        \* how far the mount effects have run: "none", "first",
                    \* "done", or "leaving" and "left" while a redirect of
                    \* the first effect waits to be committed
    user, chats, activeChat, messages, isSending, isRecording,
    fetches,        \* getChats calls of the mount effects, in flight, in
                    \* the order they were made
    creates,        \* createNewChat calls in flight
    sends,          \* sendMessage / sendMessageFromText calls in flight
    recognitions,   \* SpeechRecognition objects that have not ended
    recognitionRef, \* recognitionRef.current (0: null)
    timers,         \* pending setTimeout(() => navigate('/dashboard'), 3000)
    nSends, nCreates, nRecordings, nSelects,   \* operations started so far
    lastAttempt,    \* history: the send attempt the last step made (its
                    \* text and the verdict of the guards), or Null
    lastResult,     \* history: the sendChatMessage result the last step
                    \* processed, or Null
    lastData,       \* history: the getChats result the last step
                    \* processed, or Null
    lastAudio,      \* history: how the speech output the last step
                    \* waited for ended, or "none"
    lastSettled,    \* history: the send the last step settled, or Null
    lastEnded,      \* history: the final transcript of the recognition whose
                    \* onend the last step ran, or Null
    lastLike,       \* history: how the handleLikeImage call of the last step
                    \* ended, or "none"
    dash,           \* the Dashboard page on its own: its state, its calls in
                    \* flight and, as history, the call the last step settled
    api             \* a call of an API client function on its own: the
                    \* function, its arguments, how far it has run, what its
                    \* fetch ended with and how the call settled

vars == <<variant, backend, stored, server, location, effects, user, chats, activeChat,
          messages, isSending, isRecording, fetches, creates, sends,
          recognitions, recognitionRef, timers, nSends, nCreates,
          nRecordings, nSelects, lastAttempt, lastResult, lastData, lastAudio,
          lastSettled, lastLike, lastEnded, dash, api>>

stateVars == <<user, chats, activeChat, messages, isSending, isRecording>>
flightVars == <<fetches, creates, sends, recognitions, recognitionRef, timers>>
countVars == <<nSends, nCreates, nRecordings, nSelects>>
\* what no handler of the Chat page writes
envVars == <<variant, backend, stored, server, dash, api>>
\* what the Chat page holds
pageVars == <<location, effects, stateVars, flightVars, countVars, lastAttempt,
              lastResult, lastData, lastAudio, lastSettled, lastLike,
              lastEnded>>

\* The history variables describe the last step only.
NoAttempt == lastAttempt' = Null
NoResult == lastResult' = Null
NoData == lastData' = Null
NoAudio == lastAudio' = "none"
NoSettle == lastSettled' = Null
NoLike == lastLike' = "none"
NoEnd == lastEnded' = Null
NoHistory ==
    NoAttempt /\ NoResult /\ NoData /\ NoAudio /\ NoSettle /\ NoLike /\ NoEnd

\* useState initial values (lines 8-13, 475-480); nothing has run yet.
PageStateInit ==
    /\ effects = "none"
    /\ user = Null
    /\ chats = Array(<<>>)
    /\ activeChat = Null
    /\ messages = <<>>
    /\ isSending = FALSE
    /\ isRecording = FALSE
    /\ fetches = <<>>
    /\ creates = {}
    /\ sends = {}
    /\ recognitions = {}
    /\ recognitionRef = 0
    /\ timers = 0
    /\ nSends = 0
    /\ nCreates = 0
    /\ nRecordings = 0
    /\ nSelects = 0
    /\ lastAttempt = Null
    /\ lastResult = Null
    /\ lastData = Null
    /\ lastAudio = "none"
    /\ lastSettled = Null
    /\ lastLike = "none"
    /\ lastEnded = Null

\* The Chat page has been constructed and nothing has run.
PageInit ==
    /\ location = "/chat"
    /\ PageStateInit

\* No API client function is being followed on its own.
ApiIdle ==
    [pc |-> "idle", fn |-> "none", args |-> <<>>, http |-> Null,
     result |-> Null]

\* useState initial values of the Dashboard (part_000 lines 8-13), nothing in
\* flight.
DashIdle ==
    [user |-> Null, isEditing |-> FALSE, uploading |-> FALSE, error |-> "",
     userPhotos |-> "[]", effect |-> FALSE, ops |-> {}, nOps |-> 0,
     last |-> Null]

\* The Chat page has just been constructed.
Init ==
    /\ variant \in {"typed", "voice"}
    /\ backend \in {"plain", "products"}
    /\ stored \in StoredUsers
    /\ server \in {"chats", "nochats"}
    /\ PageInit
    /\ dash = DashIdle
    /\ api = ApiIdle

\* The operations counted against MaxOps.
OpsStarted ==
    nSelects + nCreates + (IF variant = "voice" THEN nRecordings ELSE nSends)

\* The Chat component is mounted.
Mounted == location = "/chat"

\* The page renders its controls (line 208: if (!user) return null) and the
\* effects of the render that set the user have run.
Interactive == Mounted /\ effects = "done" /\ user # Null

\* navigate(to): the route changes and the Chat page is unmounted; its state
\* is discarded and what it had in flight is abandoned.
Navigate(to) ==
    /\ location' = to
    /\ effects' = "none"
    /\ user' = Null
    /\ chats' = Array(<<>>)
    /\ activeChat' = Null
    /\ messages' = <<>>
    /\ isSending' = FALSE
    /\ isRecording' = FALSE
    /\ fetches' = <<>>
    /\ creates' = {}
    /\ sends' = {}
    /\ recognitions' = {}
    /\ recognitionRef' = 0
    /\ timers' = 0
    /\ nSends' = 0
    /\ nCreates' = 0
    /\ nRecordings' = 0
    /\ nSelects' = 0
    /\ NoHistory
    /\ UNCHANGED envVars

\* ---------------------------------------------------------- mount effects
\* The first effect of a user without photos (lines 25-34, 493-502):
\* setUser(parsedUser) and then navigate('/dashboard').  The two are state
\* updates of two components (Chat and the router).  A router that commits
\* the location with the update of the user unmounts the page at once; a
\* router that commits it as a transition (react-router 7, or 6 with
\* v7_startTransition) lets the page render once more with the user set, and
\* the effects of that render run before the page is unmounted.  The source
\* does not fix the router, so both happen.
RedirectWithoutPhotos ==
    \/ Navigate("/dashboard")
    \/ /\ effects' = "leaving"
       /\ user' = stored
       /\ UNCHANGED <<location, chats, activeChat, messages, isSending,
                      isRecording, flightVars>>
       /\ NoHistory /\ UNCHANGED <<countVars, envVars>>

\* First effect (lines 18-41, 486-509).
MountEffect ==
    /\ Mounted /\ effects = "none"
    /\ IF stored = Null
       THEN Navigate("/login")
       ELSE IF Get(stored).photo_urls \in {"undefined", "[]"}
       THEN RedirectWithoutPhotos
       ELSE /\ effects' = "first"
            /\ user' = stored
            /\ IF Get(stored).user_id # ""
               THEN fetches' = Append(fetches,
                      [user_id |-> UserIdOf(Get(stored)),
                       closureActiveChat |-> activeChat])
               ELSE UNCHANGED fetches
            /\ UNCHANGED <<location, chats, activeChat, messages, isSending,
                           isRecording, creates, sends, recognitions,
                           recognitionRef, timers>>
            /\ NoHistory /\ UNCHANGED <<countVars, envVars>>

\* Second effect, run after the render in which user?.username changed
\* (lines 43-48, 101-105, 511-516, 578-582).
UsernameEffect ==
    /\ Mounted /\ effects \in {"first", "leaving"}
    /\ effects' = IF effects = "first" THEN "done" ELSE "left"
    /\ IF user # Null /\ Get(user).username # "" /\ Get(user).user_id # ""
       THEN fetches' = Append(fetches,
              [user_id |-> UserIdOf(Get(user)),
               closureActiveChat |-> activeChat])
       ELSE UNCHANGED fetches
    /\ UNCHANGED <<location, stateVars, creates, sends, recognitions,
                   recognitionRef, timers>>
    /\ NoHistory /\ UNCHANGED <<countVars, envVars>>

\* ------------------------------------------------------ fetchChatsWithUserId
\* fetchChatsWithUserId without its Array.isArray check: the parsed body is
\* stored as it came.
ChatsAfterFetch_Unchecked(r) ==
    IF r.ok THEN r.data ELSE Array(<<>>)

\* fetchChatsWithUserId without the setChats([]) of its catch block: a
\* rejected call leaves the list as it is.
ChatsAfterFetch_KeptOnError(r) ==
    IF r.ok THEN (IF r.data.isArray THEN r.data ELSE Array(<<>>)) ELSE chats

\* The chat list after a getChats call settled with r (lines 67-73, 97).
ChatsAfterFetch(r) ==
    IF r.ok /\ r.data.isArray THEN r.data ELSE Array(<<>>)

\* fetchChatsWithUserId without its branch for the empty list (lines 84-89).
FetchChatsSettle_NoClear(closureActiveChat, r) ==
    /\ chats' = ChatsAfterFetch(r)
    /\ lastData' = Some(r)
    /\ IF r.ok /\ r.data.isArray /\ Len(r.data.items) > 0
          /\ closureActiveChat = Null
       THEN /\ activeChat' = Some(r.data.items[1])
            /\ messages' = MessagesOf(r.data.items[1])
       ELSE UNCHANGED <<activeChat, messages>>

\* The continuation of fetchChatsWithUserId after `await getChats(user_id)`
\* (lines 63-98); closureActiveChat is the activeChat of the render that
\* created this fetchChatsWithUserId.
FetchChatsSettle(closureActiveChat, r) ==
    /\ chats' = ChatsAfterFetch(r)
    /\ lastData' = Some(r)
    /\ IF r.ok /\ r.data.isArray
       THEN IF Len(r.data.items) > 0 /\ closureActiveChat = Null
            THEN /\ activeChat' = Some(r.data.items[1])
                 /\ messages' = MessagesOf(r.data.items[1])
            ELSE IF Len(r.data.items) = 0
                 THEN /\ activeChat' = Null
                      /\ messages' = <<>>
                 ELSE UNCHANGED <<activeChat, messages>>
       ELSE UNCHANGED <<activeChat, messages>>

\* A getChats call of a mount effect settles.
MountFetchSettles ==
    /\ Mounted /\ effects = "done"
    /\ \E i \in 1..Len(fetches), r \in GetChatsAnswers(server, nCreates) :
        /\ fetches' = SubSeq(fetches, 1, i - 1) \o
                       SubSeq(fetches, i + 1, Len(fetches))
        /\ FetchChatsSettle(fetches[i].closureActiveChat, r)
    /\ UNCHANGED <<location, effects, user, isSending, isRecording,
                   creates, sends, recognitions, recognitionRef, timers>>
    /\ NoAttempt /\ NoResult /\ NoAudio /\ NoLike /\ NoEnd /\ NoSettle
    /\ UNCHANGED <<countVars, envVars>>

\* -------------------------------------------------------- chat selection
\* onClick of a chat button (lines 242-248, 799-805).
SelectChat ==
    /\ Interactive
    /\ OpsStarted < MaxOps
    /\ nSelects' = nSelects + 1
    /\ \E i \in 1..Len(chats.items) :
        /\ activeChat' = Some(chats.items[i])
        /\ messages' = MessagesOf(chats.items[i])
    /\ UNCHANGED <<location, effects, user, chats, isSending, isRecording,
                   nSends, nCreates, nRecordings>>
    /\ NoHistory /\ UNCHANGED <<flightVars, envVars>>

\* ----------------------------------------------------------- createNewChat
\* createNewChat up to `await createChat(...)` (lines 107-115, 584-592).
CreateNewChat ==
    /\ Interactive
    /\ nCreates < MaxCreates /\ OpsStarted < MaxOps
    /\ Get(user).user_id # ""
    /\ nCreates' = nCreates + 1
    /\ creates' = creates \cup
         {[id |-> nCreates + 1, user_id |-> UserIdOf(Get(user)),
           session |-> Len(chats.items) + 1, closureChats |-> chats]}
    /\ UNCHANGED <<location, effects, stateVars, fetches, sends, recognitions,
                   recognitionRef, timers, nSends, nRecordings, nSelects>>
    /\ NoHistory /\ UNCHANGED envVars

\* The continuation of createNewChat (lines 116-121, 593-598).
CreateChatSettles ==
    /\ Mounted
    /\ \E c \in creates, r \in CreateChatResults :
        /\ creates' = creates \ {c}
        /\ IF r.ok
           THEN /\ chats' = Array(Append(c.closureChats.items, r.chat))
                /\ activeChat' = Some(r.chat)
                /\ messages' = <<>>
           ELSE UNCHANGED <<chats, activeChat, messages>>
    /\ UNCHANGED <<location, effects, user, isSending, isRecording,
                   fetches, sends, recognitions, recognitionRef, timers>>
    /\ NoHistory /\ UNCHANGED <<countVars, envVars>>

\* ------------------------------------------------------------ send protocol
\* The early returns of sendMessage (lines 128-135) and sendMessageFromText
\* (lines 676-683): "accepted", or the reason of the silent return.
SendGuard(text, sending, u, chat) ==
    IF Trim(text) = <<>> THEN "empty"
    ELSE IF sending THEN "sending"
    ELSE IF u = Null \/ Get(u).username = "" \/ chat = Null THEN "missing"
    ELSE "accepted"

\* The body sendChatMessage posts (JoinRoom.jsx lines 598-605).
RequestBody(message, userId, threadId) ==
    [message |-> Trim(message), user_id |-> userId, thread_id |-> threadId]

\* The call in flight after the optimistic append (lines 141-152, 688-698):
\* the request posted and what the continuation keeps from its render.
\* History: userAppended and assistantAppended count the messages of each
\* role appended to messages since this send was accepted, its own user
\* message included; outcome, refetched and navigation tell what the call
\* has done so far.
SendInFlight(id, message, u, chat) ==
    [id |-> id, pc |-> "sendChatMessage",
     body |-> RequestBody(message, UserIdOf(Get(u)), ThreadIdOf(Get(chat))),
     closureActiveChat |-> chat,
     userAppended |-> 1, assistantAppended |-> 0,
     outcome |-> "pending", refetched |-> FALSE, navigation |-> FALSE]

\* The assistant message with the fallback order of the product lists
\* swapped: styled_products first.
AssistantMsgOf_StyledFirst(r) ==
    Msg("assistant", r.response,
        Or(r.ranked_products, "null"),
        Or(r.styled_products, "null"),
        Or(r.styled_products, Or(r.ranked_products, "null")),
        Or(r.merged_images, "null"))

\* The assistant message built from a reply (lines 158-166, 703-711).
AssistantMsgOf(r) ==
    Msg("assistant", r.response,
        Or(r.ranked_products, "null"),
        Or(r.styled_products, "null"),
        Or(r.ranked_products, Or(r.styled_products, "null")),
        Or(r.merged_images, "null"))

\* The product list the page renders for a message (lines 343-347, 900-904):
\* "none" when the product block is not rendered.
RenderedProducts(msg) ==
    IF \/ ~Falsy(msg.ranked_products) /\ ArrayLength(msg.ranked_products) > 0
       \/ ~Falsy(msg.styled_products) /\ ArrayLength(msg.styled_products) > 0
       \/ ~Falsy(msg.products) /\ ArrayLength(msg.products) > 0
    THEN Or(msg.ranked_products, Or(msg.products, msg.styled_products))
    ELSE "none"

\* The message of the error the try block ends with: the rejection's message,
\* or that of the TypeError of reading response.response of null.
CaughtMessage(r) ==
    IF r.kind = "null"
    THEN <<"Cannot read properties of null (reading 'response')">>
    ELSE r.message

\* The photo branch taken only when the error message is the needle itself
\* (=== instead of includes).
IsPhotoError_Equals(message) == message = <<PhotoNeedle>>

\* Whether the catch block takes the photo branch (lines 178, 734).
IsPhotoError(message) == message # <<>> /\ Includes(message, PhotoNeedle)

\* The message appended by the catch block (lines 178-192, 734-747).
CatchMsg(message) ==
    IF IsPhotoError(message)
    THEN PlainAssistantMsg(PhotoExplanation)
    ELSE PlainAssistantMsg(ErrorContent(message))

\* The timers pending after the catch block (lines 184-186, 739-741).
CatchTimers(message, pending) ==
    IF IsPhotoError(message) THEN pending + 1 ELSE pending

\* The sends in flight after du user messages and da assistant messages have
\* been appended to messages.
Appended(inFlight, du, da) ==
    {[t EXCEPT !.userAppended = @ + du, !.assistantAppended = @ + da] :
        t \in inFlight}

\* The handler without its finally block: the send settles and the sending
\* flag stays as it is.
Finally_FlagKept(s, da) ==
    /\ UNCHANGED isSending
    /\ sends' = Appended({t \in sends : t.id # s.id}, 0, da)
    /\ lastSettled' = Some(s)

\* The finally block (lines 193-195, 748-750): the send s has settled.
Finally(s, da) ==
    /\ isSending' = FALSE
    /\ sends' = Appended({t \in sends : t.id # s.id}, 0, da)
    /\ lastSettled' = Some(s)

\* A send attempt as the history records it.
Attempt(text, sending, u, chat) ==
    Some([text |-> text, verdict |-> SendGuard(text, sending, u, chat)])

\* The new message is put in front of the list.
Accept_Prepends(message, chat) ==
    /\ nSends < MaxSends
    /\ variant = "typed" => OpsStarted < MaxOps
    /\ messages' = <<UserMsg(message)>> \o messages
    /\ isSending' = TRUE
    /\ nSends' = nSends + 1
    /\ sends' = Appended(sends, 1, 0) \cup
                {SendInFlight(nSends + 1, message, user, chat)}

\* The optimistic append and the request (lines 141-152, 688-698).
Accept(message, chat) ==
    /\ nSends < MaxSends
    /\ variant = "typed" => OpsStarted < MaxOps
    /\ messages' = Append(messages, UserMsg(message))
    /\ isSending' = TRUE
    /\ nSends' = nSends + 1
    /\ sends' = Appended(sends, 1, 0) \cup
                {SendInFlight(nSends + 1, message, user, chat)}

\* sendMessage, the submit handler of the typed variant, up to its first
\* await (lines 126-152), with the text the input holds.  The handler is run
\* whatever the disabled attributes of the form say, as requestSubmit() runs
\* it.
SendMessage ==
    /\ Interactive /\ variant = "typed"
    /\ \E input \in Texts :
        /\ lastAttempt' = Attempt(input, isSending, user, activeChat)
        /\ IF SendGuard(input, isSending, user, activeChat) = "accepted"
           THEN Accept(Trim(input), activeChat)
           ELSE UNCHANGED <<messages, isSending, nSends, sends>>
    /\ UNCHANGED <<location, effects, user, chats, activeChat, isRecording,
                   fetches, creates, recognitions, recognitionRef, timers,
                   nCreates, nRecordings, nSelects, envVars>>
    /\ NoResult /\ NoData /\ NoAudio /\ NoLike /\ NoEnd /\ NoSettle

\* The handler without the refetch after the reply: it goes straight to the
\* finally block.
Refetch_Skipped(s, da) == Finally(s, da)

\* Where the handler continues after the reply has been handled (lines
\* 169-173, 725-729): the refetch, or the finally block.  da is the number
\* of assistant messages this step has appended.
Refetch(s, da) ==
    IF Get(user).user_id # ""
    THEN /\ sends' = Appended({t \in sends : t.id # s.id}, 0, da) \cup
               {[s EXCEPT !.pc = "getChats", !.refetched = TRUE]}
         /\ UNCHANGED isSending /\ NoSettle
    ELSE Finally(s, da)

\* The message of a send is dropped when the active chat is no longer the
\* chat the send was made for.
AppendLate_SameChatOnly(s, msg) ==
    IF activeChat # Null /\ ThreadIdOf(Get(activeChat)) = s.body.thread_id
    THEN Append(messages, msg)
    ELSE messages

\* setMessages(prev => [...prev, msg]) of the continuation of the send s
\* (lines 159, 179, 188, 713, 735, 743): the message goes to the end of the
\* list as it is when the response is processed.
AppendLate(s, msg) == Append(messages, msg)

\* The continuation after `await sendChatMessage(...)` up to the next await
\* or the end of the handler (lines 152-196, 698-751).
SendChatMessageSettles ==
    /\ Mounted
    /\ \E s \in sends, r \in SendResults(backend) :
        /\ s.pc = "sendChatMessage"
        /\ lastResult' = Some(r)
        /\ IF r.kind = "json" /\ r.response # <<>>
           THEN /\ messages' = AppendLate(s, AssistantMsgOf(r))
                /\ UNCHANGED timers
                /\ IF variant = "voice"
                   THEN /\ sends' = Appended(sends \ {s}, 0, 1) \cup
                              {[s EXCEPT !.pc = "textToSpeech",
                                         !.outcome = "reply",
                                         !.assistantAppended = @ + 1]}
                        /\ UNCHANGED isSending /\ NoSettle
                   ELSE Refetch([s EXCEPT !.outcome = "reply",
                                          !.assistantAppended = @ + 1], 1)
           ELSE IF r.kind = "json"
           THEN /\ UNCHANGED <<messages, timers>>
                /\ Refetch([s EXCEPT !.outcome = "empty"], 0)
           ELSE /\ messages' = AppendLate(s, CatchMsg(CaughtMessage(r)))
                /\ timers' = CatchTimers(CaughtMessage(r), timers)
                /\ Finally([s EXCEPT
                              !.outcome = "error",
                              !.assistantAppended = @ + 1,
                              !.navigation = IsPhotoError(CaughtMessage(r))], 1)
    /\ UNCHANGED <<location, effects, user, chats, activeChat, isRecording,
                   fetches, creates, recognitions, recognitionRef>>
    /\ NoAttempt /\ NoData /\ NoAudio /\ NoLike /\ NoEnd
    /\ UNCHANGED <<countVars, envVars>>

\* The inner try without its catch: a failure of the speech output reaches
\* the outer catch block, which appends the error message and skips the
\* refetch.
AudioCaught_Escapes(s, audio) ==
    IF audio = "played"
    THEN UNCHANGED <<messages, timers>> /\ Refetch(s, 0)
    ELSE /\ messages' = Append(messages, CatchMsg(<<"audio">>))
         /\ UNCHANGED timers
         /\ Finally([s EXCEPT !.outcome = "error",
                              !.assistantAppended = @ + 1], 1)

\* try { await textToSpeech; await playAudio } catch { console.error }
\* (lines 716-722) and what follows it (lines 725-729): however the speech
\* output ended, nothing is appended and the handler goes on to the refetch.
AudioCaught(s, audio) ==
    /\ UNCHANGED <<messages, timers>>
    /\ Refetch(s, 0)

\* The inner try of the voice variant settles (lines 716-722):
\* `await textToSpeech(...)` and then `await playAudio(...)` have resolved, or
\* one of them has rejected and the inner catch has logged it.  Nothing of
\* the page changes between the two awaits, so they are one step.
AudioSettles ==
    /\ Mounted
    /\ \E s \in sends, audio \in {"played", "ttsFailed", "playFailed"} :
        /\ s.pc = "textToSpeech"
        /\ lastAudio' = audio
        /\ AudioCaught(s, audio)
    /\ UNCHANGED <<location, effects, user, chats, activeChat, isRecording,
                   fetches, creates, recognitions, recognitionRef>>
    /\ NoAttempt /\ NoResult /\ NoData /\ NoLike /\ NoEnd
    /\ UNCHANGED <<countVars, envVars>>

\* `await fetchChatsWithUserId(userId)` of a send settles, and the finally
\* block follows (lines 169-173, 193-195, 725-729, 748-750).
RefetchSettles ==
    /\ Mounted
    /\ \E s \in sends, r \in GetChatsAnswers(server, nCreates) :
        /\ s.pc = "getChats"
        /\ FetchChatsSettle(s.closureActiveChat, r)
        /\ Finally(s, 0)
    /\ UNCHANGED <<location, effects, user, isRecording, fetches, creates,
                   recognitions, recognitionRef, timers>>
    /\ NoAttempt /\ NoResult /\ NoAudio /\ NoLike /\ NoEnd
    /\ UNCHANGED <<countVars, envVars>>

\* --------------------------------------------------------- handleLikeImage
\* A product card with a like button is shown: some message renders a
\* non-empty product list (lines 345-347, 410-412, 902-904, 967-969).
LikeButtonShown ==
    \E i \in 1..Len(messages) :
        /\ RenderedProducts(messages[i]) # "none"
        /\ ArrayLength(RenderedProducts(messages[i])) > 0

\* product.id of a card with a like button: a truthy value.
ProductIds == {<<" ">>, <<"a">>}

\* What the request of a like ends with.
LikeOutcomes ==
    {h \in HttpOutcomes :
        \/ h.kind = "ok" /\ h.body.parses
        \/ h.kind = "rejected" /\ h.isError
        \/ /\ h.kind = "status" /\ h.statusText = "Bad Request"
           /\ h.body = ErrorBody(TRUE, FALSE, Null, Some(<<"m">>))}

\* user.username as the text passed to likeImage.
UsernameText(u) == IF u.username = "" THEN <<>> ELSE <<"a">>

\* How likeImage(user.username, imageId) can settle.
LikeResults(u, imageId) ==
    IF ApiValidation("likeImage", <<UsernameText(u), imageId>>) # Null
    THEN {Get(ApiValidation("likeImage", <<UsernameText(u), imageId>>))}
    ELSE {ApiResponse("likeImage", h) : h \in LikeOutcomes}

\* The catch block appends an error message to the conversation.
LikeSettled_Appends(msgs, r) ==
    IF r.ok THEN [messages |-> msgs, outcome |-> "liked"]
    ELSE [messages |-> Append(msgs, PlainAssistantMsg(SendFallback)),
          outcome |-> "logged"]

\* try { await likeImage(...); console.log } catch { console.error } (lines
\* 200-205, 757-762): the messages after the call and how it ended.
LikeSettled(msgs, r) ==
    IF r.ok THEN [messages |-> msgs, outcome |-> "liked"]
    ELSE IF r.requested THEN [messages |-> msgs, outcome |-> "rejected"]
    ELSE [messages |-> msgs, outcome |-> "invalid"]

\* handleLikeImage(product.id) (lines 198-206, 755-763).  Nothing of the page
\* is read or written after the await, so the call and its settling are one
\* step.
HandleLikeImage ==
    /\ Interactive
    /\ LikeButtonShown
    /\ \E imageId \in ProductIds :
         IF Get(user).username = ""
         THEN /\ lastLike' = "skipped"
              /\ UNCHANGED messages
         ELSE \E r \in LikeResults(Get(user), imageId) :
                /\ lastLike' = LikeSettled(messages, r).outcome
                /\ messages' = LikeSettled(messages, r).messages
    /\ UNCHANGED <<location, effects, user, chats, activeChat, isSending,
                   isRecording, flightVars, countVars, envVars>>
    /\ NoAttempt /\ NoResult /\ NoData /\ NoAudio /\ NoSettle /\ NoEnd

\* ------------------------------------------------------- voice recording
\* startRecording (lines 602-665); the microphone button runs it when
\* isRecording is false and is disabled while isSending (lines 1001-1002).
\* The browser is one that has SpeechRecognition.
StartRecording ==
    /\ Interactive /\ variant = "voice"
    /\ ~isSending /\ ~isRecording
    /\ nRecordings < MaxRecordings /\ OpsStarted < MaxOps
    /\ nRecordings' = nRecordings + 1
    /\ recognitions' = recognitions \cup
         {[id |-> nRecordings + 1, finalTranscript |-> <<>>,
           closureIsSending |-> isSending,
           closureActiveChat |-> activeChat]}
    /\ recognitionRef' = nRecordings + 1
    /\ isRecording' = TRUE
    /\ UNCHANGED <<location, effects, user, chats, activeChat, messages,
                   isSending, fetches, creates, sends, timers, nSends,
                   nCreates, nSelects>>
    /\ NoHistory /\ UNCHANGED envVars

\* stopRecording (lines 667-672); the button runs it when isRecording.
\* recognition.stop() makes the recogniser deliver onend later.
StopRecording ==
    /\ Interactive /\ variant = "voice"
    /\ ~isSending /\ isRecording
    /\ isRecording' = IF recognitionRef # 0 THEN FALSE ELSE isRecording
    /\ UNCHANGED <<location, effects, user, chats, activeChat, messages,
                   isSending>>
    /\ NoHistory /\ UNCHANGED <<flightVars, countVars, envVars>>

\* recognition.onresult with one final result (lines 619-633); a session
\* delivers at most one here.
OnResult ==
    /\ Mounted
    /\ \E g \in recognitions :
        /\ g.finalTranscript = <<>>
        /\ recognitions' = (recognitions \ {g}) \cup
             {[g EXCEPT !.finalTranscript = g.finalTranscript \o <<"a">> \o <<" ">>]}
    /\ UNCHANGED <<location, effects, stateVars, fetches, creates, sends,
                   recognitionRef, timers>>
    /\ NoHistory /\ UNCHANGED <<countVars, envVars>>

\* recognition.onerror (lines 648-656); onend follows.
OnError ==
    /\ Mounted
    /\ recognitions # {}
    /\ isRecording' = FALSE
    /\ UNCHANGED <<location, effects, user, chats, activeChat, messages,
                   isSending>>
    /\ NoHistory /\ UNCHANGED <<flightVars, countVars, envVars>>

\* The send protocol is entered whatever was transcribed.
HasSpeech_Always(transcribedText) == TRUE

\* if (transcribedText) (line 639): a non-empty string
HasSpeech(transcribedText) == transcribedText # <<>>

\* recognition.onend (lines 635-646) with sendMessageFromText up to its first
\* await (lines 675-698).  The recogniser delivers it after stop(), after an
\* error, or when it ends the session by itself.
OnEnd ==
    /\ Mounted
    /\ \E g \in recognitions :
        /\ recognitions' = recognitions \ {g}
        /\ isRecording' = FALSE
        /\ lastEnded' = Some(g.finalTranscript)
        /\ IF HasSpeech(Trim(g.finalTranscript))
           THEN /\ lastAttempt' = Attempt(Trim(g.finalTranscript),
                                          g.closureIsSending, user,
                                          g.closureActiveChat)
                /\ IF SendGuard(Trim(g.finalTranscript), g.closureIsSending,
                                user, g.closureActiveChat) = "accepted"
                   THEN Accept(Trim(g.finalTranscript), g.closureActiveChat)
                   ELSE UNCHANGED <<messages, isSending, nSends, sends>>
           ELSE NoAttempt /\ UNCHANGED <<messages, isSending, nSends, sends>>
    /\ UNCHANGED <<location, effects, user, chats, activeChat, fetches,
                   creates, recognitionRef, timers, nCreates, nRecordings,
                   nSelects, envVars>>
    /\ NoResult /\ NoData /\ NoAudio /\ NoSettle /\ lastLike' = "none"

\* -------------------------------------------------------------- navigation
\* The timer of the photo error fires (lines 184-186, 739-741).
TimerFires ==
    /\ Mounted
    /\ timers > 0
    /\ Navigate("/dashboard")

\* The router commits the navigation of the first effect and the page is
\* unmounted (lines 32, 500).
RedirectCommits ==
    /\ Mounted /\ effects = "left"
    /\ Navigate("/dashboard")

\* "Back to Dashboard" (lines 215, 772).
BackToDashboard ==
    /\ Interactive
    /\ Navigate("/dashboard")

Next ==
    \/ MountEffect
    \/ UsernameEffect
    \/ MountFetchSettles
    \/ SelectChat
    \/ CreateNewChat
    \/ CreateChatSettles
    \/ SendMessage
    \/ SendChatMessageSettles
    \/ AudioSettles
    \/ RefetchSettles
    \/ HandleLikeImage
    \/ StartRecording
    \/ StopRecording
    \/ OnResult
    \/ OnError
    \/ OnEnd
    \/ TimerFires
    \/ RedirectCommits
    \/ BackToDashboard

Spec == Init /\ [][Next]_vars

\* Every backend request and every audio playback eventually settles.
FairSpec ==
    /\ Spec
    /\ WF_vars(SendChatMessageSettles)
    /\ WF_vars(AudioSettles)
    /\ WF_vars(RefetchSettles)

\* ------------------------------------------------ API client on its own
\* A caller invokes one of the functions with some arguments.
ApiInvoke ==
    /\ api.pc \in {"idle", "settled"}
    /\ \E fn \in ApiFunctions : \E args \in ArgLists(fn) :
         api' = [pc |-> "called", fn |-> fn, args |-> args, http |-> Null,
                 result |-> Null]
    /\ UNCHANGED <<variant, backend, stored, server, dash, pageVars>>

\* The function checks its arguments and throws, or issues its request.
ApiValidate ==
    /\ api.pc = "called"
    /\ api' = IF ApiValidation(api.fn, api.args) # Null
              THEN [api EXCEPT !.pc = "settled",
                               !.result = ApiValidation(api.fn, api.args)]
              ELSE [api EXCEPT !.pc = "fetching"]
    /\ UNCHANGED <<variant, backend, stored, server, dash, pageVars>>

\* The request ends and the function returns or throws.
ApiSettles ==
    /\ api.pc = "fetching"
    /\ \E http \in HttpOutcomes :
         api' = [api EXCEPT !.pc = "settled", !.http = Some(http),
                            !.result = Some(ApiResponse(api.fn, http))]
    /\ UNCHANGED <<variant, backend, stored, server, dash, pageVars>>

ApiInit ==
    /\ variant = "typed"
    /\ backend = "plain"
    /\ stored = Null
    /\ server = "chats"
    /\ PageInit
    /\ dash = DashIdle
    /\ api = ApiIdle

ApiNext ==
    \/ ApiInvoke
    \/ ApiValidate
    \/ ApiSettles

ApiSpec == ApiInit /\ [][ApiNext]_vars

\* ------------------------------------------------------------- Dashboard
\* The Dashboard page (part_000) on its own.  A user record here also
\* carries a profile field the page edits.
UserFields == {"username", "user_id", "photo_urls", "region"}

DashUsers ==
    [username : {"alice"}, user_id : {"u1"},
     photo_urls : {"undefined", "[]", "[p]"}, region : {"undefined", "eu"}]

\* JSON.stringify of an object: properties whose value is undefined are
\* left out.
JsonStringify(u) == [f \in {g \in DOMAIN u : u[g] # "undefined"} |-> u[f]]

\* JSON.parse of the text and the reading of its properties: a property
\* that is not there reads as undefined.
JsonParse(j) ==
    [f \in UserFields |-> IF f \in DOMAIN j THEN j[f] ELSE "undefined"]

\* localStorage.setItem('user', JSON.stringify(updatedUser)) as the next
\* reader of the item sees it.
SetItem(updatedUser) == Some(JsonParse(JsonStringify(updatedUser)))

\* What uploadImageViaProxy and updateUser settle with: the user record of
\* the server, the JSON value null, or a rejection.
UpdateResults ==
    {[kind |-> "json", user |-> u] : u \in DashUsers}
    \cup {[kind |-> k, user |-> CHOOSE u \in DashUsers : TRUE] :
            k \in {"null", "error"}}

\* What deletePhoto settles with: an object with or without photo_urls, the
\* JSON value null, or a rejection.
DeleteResults ==
    {[kind |-> "json", photo_urls |-> p] : p \in {"undefined", "[]", "[p]"}}
    \cup {[kind |-> k, photo_urls |-> "undefined"] : k \in {"null", "error"}}

\* The Dashboard component is mounted.
DashMounted == location = "/dashboard"

\* What the Dashboard leaves alone.
DashFrame == UNCHANGED <<variant, backend, server, api, effects, stateVars,
                         flightVars, countVars, lastAttempt, lastResult,
                         lastData, lastAudio, lastSettled, lastLike,
                         lastEnded>>

\* History: the last step was the redirect of the mount effect.
DashRedirected ==
    Some([kind |-> "redirect", success |-> FALSE, result |-> "none",
          closureUser |-> "none"])

\* The mount effect without its check of the stored item: the page stays.
DashMountEffect_NoCheck ==
    /\ DashMounted /\ ~dash.effect
    /\ dash' = [dash EXCEPT !.effect = TRUE, !.user = stored, !.last = Null]
    /\ UNCHANGED <<location, stored>> /\ DashFrame

\* The mount effect (lines 44-68).
DashMountEffect ==
    /\ DashMounted /\ ~dash.effect
    /\ IF stored = Null
       THEN /\ location' = "/login"
            /\ dash' = [DashIdle EXCEPT !.ops = dash.ops, !.nOps = dash.nOps,
                                        !.last = DashRedirected]
       ELSE /\ UNCHANGED location
            /\ dash' = [dash EXCEPT
                 !.effect = TRUE,
                 !.user = stored,
                 !.userPhotos =
                     IF Get(stored).photo_urls \in {"[]", "[p]"}
                     THEN Get(stored).photo_urls ELSE @,
                 !.last = Null]
    /\ UNCHANGED stored /\ DashFrame

\* The page renders its controls (line 207: if (!user) return null).
DashInteractive == DashMounted /\ dash.effect /\ dash.user # Null

\* The edit button (line 259).
StartEditing ==
    /\ DashInteractive /\ ~dash.isEditing
    /\ dash' = [dash EXCEPT !.isEditing = TRUE, !.last = Null]
    /\ UNCHANGED <<location, stored>> /\ DashFrame

\* A call in flight: the handler, and the user of the render it was started
\* in.
DashOp(id, kind) == [id |-> id, kind |-> kind, closureUser |-> Get(dash.user)]

\* handleImageUpload up to its await (lines 74-95); the file input is
\* disabled while uploading.
HandleImageUpload ==
    /\ DashInteractive /\ ~dash.uploading
    /\ \E file \in {"image", "text", "large"} :
         IF file # "image"
         THEN dash' = [dash EXCEPT !.error = "file", !.last = Null]
         ELSE /\ dash.nOps < MaxOps
              /\ dash' = [dash EXCEPT
                   !.uploading = TRUE, !.error = "", !.last = Null,
                   !.nOps = @ + 1,
                   !.ops = @ \cup {DashOp(dash.nOps + 1, "upload")}]
    /\ UNCHANGED <<location, stored>> /\ DashFrame

\* handleSaveProfile up to its await (lines 165-170); the Save button is
\* shown while editing and disabled while uploading.
HandleSaveProfile ==
    /\ DashInteractive /\ dash.isEditing /\ ~dash.uploading
    /\ dash.nOps < MaxOps
    /\ dash' = [dash EXCEPT
         !.uploading = TRUE, !.error = "", !.last = Null, !.nOps = @ + 1,
         !.ops = @ \cup {DashOp(dash.nOps + 1, "save")}]
    /\ UNCHANGED <<location, stored>> /\ DashFrame

\* handleDeletePhoto up to its await (lines 129-143), confirmed, for a photo
\* the page shows; the key of the photo may not be extractable.
HandleDeletePhoto ==
    /\ DashInteractive /\ dash.userPhotos = "[p]"
    /\ \E s3Key \in {"", "key"} :
         IF s3Key = ""
         THEN dash' = [dash EXCEPT !.error = "delete", !.last = Null]
         ELSE /\ dash.nOps < MaxOps
              /\ dash' = [dash EXCEPT
                   !.last = Null, !.nOps = @ + 1,
                   !.ops = @ \cup {DashOp(dash.nOps + 1, "delete")}]
    /\ UNCHANGED <<location, stored>> /\ DashFrame

\* The state setters of a continuation act only while the page is mounted.
DashSet(next) ==
    IF DashMounted THEN next
    ELSE [dash EXCEPT !.ops = next.ops, !.last = next.last]

\* What the last step settled, as the history records it.
DashSettled(op, r, success) ==
    Some([kind |-> op.kind, success |-> success, result |-> r,
          closureUser |-> op.closureUser])

\* The continuation of handleImageUpload (lines 93-126).
UploadSettles ==
    /\ \E op \in dash.ops, r \in UpdateResults :
        /\ op.kind = "upload"
        /\ IF r.kind = "json"
           THEN /\ stored' = SetItem(r.user)
                /\ dash' = DashSet([dash EXCEPT
                     !.user = Some(r.user),
                     !.userPhotos = IF r.user.photo_urls \in {"[]", "[p]"}
                                    THEN r.user.photo_urls ELSE "[]",
                     !.uploading = FALSE,
                     !.ops = @ \ {op},
                     !.last = DashSettled(op, r, TRUE)])
           ELSE /\ UNCHANGED stored
                /\ dash' = DashSet([dash EXCEPT
                     !.user = IF r.kind = "null" THEN Null ELSE @,
                     !.error = "upload",
                     !.uploading = FALSE,
                     !.ops = @ \ {op},
                     !.last = DashSettled(op, r, FALSE)])
    /\ UNCHANGED location /\ DashFrame

\* handleSaveProfile without its finally block: a failed save leaves the
\* uploading flag set.
SaveSettles_NoFinally ==
    /\ \E op \in dash.ops, r \in UpdateResults :
        /\ op.kind = "save"
        /\ IF r.kind = "json"
           THEN /\ stored' = SetItem(r.user)
                /\ dash' = DashSet([dash EXCEPT
                     !.user = Some(r.user),
                     !.isEditing = FALSE,
                     !.uploading = FALSE,
                     !.ops = @ \ {op},
                     !.last = DashSettled(op, r, TRUE)])
           ELSE /\ UNCHANGED stored
                /\ dash' = DashSet([dash EXCEPT
                     !.user = IF r.kind = "null" THEN Null ELSE @,
                     !.error = "save",
                     !.ops = @ \ {op},
                     !.last = DashSettled(op, r, FALSE)])
    /\ UNCHANGED location /\ DashFrame

\* The continuation of handleSaveProfile (lines 171-190).
SaveSettles ==
    /\ \E op \in dash.ops, r \in UpdateResults :
        /\ op.kind = "save"
        /\ IF r.kind = "json"
           THEN /\ stored' = SetItem(r.user)
                /\ dash' = DashSet([dash EXCEPT
                     !.user = Some(r.user),
                     !.isEditing = FALSE,
                     !.uploading = FALSE,
                     !.ops = @ \ {op},
                     !.last = DashSettled(op, r, TRUE)])
           ELSE /\ UNCHANGED stored
                /\ dash' = DashSet([dash EXCEPT
                     !.user = IF r.kind = "null" THEN Null ELSE @,
                     !.error = "save",
                     !.uploading = FALSE,
                     !.ops = @ \ {op},
                     !.last = DashSettled(op, r, FALSE)])
    /\ UNCHANGED location /\ DashFrame

\* The record is stored as the handler found it.
DeletedUser_Unchanged(closureUser, result) == closureUser

\* { ...user, profile: { ...user.profile, photo_urls: result.photo_urls || [] } }
\* (lines 146-156), built from the user of the render the handler was
\* started in.
DeletedUser(closureUser, result) ==
    [closureUser EXCEPT !.photo_urls = Or(result.photo_urls, "[]")]

\* The continuation of handleDeletePhoto (lines 143-162).
DeleteSettles ==
    /\ \E op \in dash.ops, r \in DeleteResults :
        /\ op.kind = "delete"
        /\ IF r.kind = "json"
           THEN /\ stored' = SetItem(DeletedUser(op.closureUser, r))
                /\ dash' = DashSet([dash EXCEPT
                     !.user = Some(DeletedUser(op.closureUser, r)),
                     !.userPhotos = Or(r.photo_urls, "[]"),
                     !.ops = @ \ {op},
                     !.last = DashSettled(op, r, TRUE)])
           ELSE /\ UNCHANGED stored
                /\ dash' = DashSet([dash EXCEPT
                     !.error = "delete",
                     !.ops = @ \ {op},
                     !.last = DashSettled(op, r, FALSE)])
    /\ UNCHANGED location /\ DashFrame

\* The log-out button (lines 226-229): the item is removed and the page is
\* left; what is in flight stays in flight.
DashLogout ==
    /\ DashInteractive
    /\ stored' = Null
    /\ location' = "/login"
    /\ dash' = [DashIdle EXCEPT !.ops = dash.ops, !.nOps = dash.nOps]
    /\ DashFrame

\* The Go to Chat button (line 220).
GoToChat ==
    /\ DashInteractive
    /\ location' = "/chat"
    /\ dash' = [DashIdle EXCEPT !.ops = dash.ops, !.nOps = dash.nOps]
    /\ UNCHANGED stored /\ DashFrame

DashInit ==
    /\ variant = "typed"
    /\ backend = "plain"
    /\ server = "chats"
    /\ stored \in {Null} \cup {Some(u) : u \in DashUsers}
    /\ location = "/dashboard"
    /\ PageStateInit
    /\ dash = DashIdle
    /\ api = ApiIdle

DashNext ==
    \/ DashMountEffect
    \/ StartEditing
    \/ HandleImageUpload
    \/ HandleSaveProfile
    \/ HandleDeletePhoto
    \/ UploadSettles
    \/ SaveSettles
    \/ DeleteSettles
    \/ DashLogout
    \/ GoToChat

DashSpec == DashInit /\ [][DashNext]_vars

\* ----------------------------------------------------- entering the pages
\* The routes have no guard (App.jsx lines 12-15): from the login page the
\* browser can open either page, whatever is stored.
OpenPage ==
    /\ location = "/login"
    /\ \E to \in {"/chat", "/dashboard"} : Navigate(to)

EntryInit ==
    /\ variant \in {"typed", "voice"}
    /\ backend = "plain"
    /\ server = "chats"
    /\ stored \in {Null} \cup {Some(u) : u \in DashUsers}
    /\ location = "/login"
    /\ PageStateInit
    /\ dash = DashIdle
    /\ api = ApiIdle

\* What runs when a page is entered and left: the mount effects of both
\* pages, the fetches they start, and the buttons that leave a page.
EntryNext ==
    \/ OpenPage
    \/ MountEffect
    \/ UsernameEffect
    \/ MountFetchSettles
    \/ RedirectCommits
    \/ BackToDashboard
    \/ DashMountEffect
    \/ DashLogout
    \/ GoToChat

EntrySpec == EntryInit /\ [][EntryNext]_vars

\* ------------------------------------------------------------------ claims
\* The message appended last.
LastMsg == messages[Len(messages)]

\* The sendChatMessage requests that are outstanding.
Outstanding == {s \in sends : s.pc = "sendChatMessage"}

\* C1: between the acceptance of a send and the moment it settles, exactly
\* one user-role message and at most one assistant-role message are appended
\* to messages.
C1_OneUserAtMostOneAssistant ==
    /\ \A s \in sends : s.userAppended = 1 /\ s.assistantAppended <= 1
    /\ lastSettled # Null =>
         /\ Get(lastSettled).userAppended = 1
         /\ Get(lastSettled).assistantAppended <= 1

\* C2: a send attempt made while the sending flag is true changes neither
\* messages nor the requests in flight.
C2_NoOpWhileSending ==
    [][(isSending /\ lastAttempt' # Null) =>
          (messages' = messages /\ sends' = sends)]_vars

\* C3: at most one sendChatMessage request is outstanding.
C3_SingleFlight == Cardinality(Outstanding) <= 1

\* C4: the sending flag is false initially, true after a send is accepted,
\* false after a send has settled, and once true it eventually is false
\* again.
C4_FlagClearedAlways ==
    /\ ~isSending
    /\ [][(nSends' = nSends + 1) => isSending']_vars
    /\ [][(lastSettled' # Null) => ~isSending']_vars
    /\ (isSending ~> ~isSending)

\* A send has settled after its follow-up chat refetch was rejected.
C4_Witness ==
    /\ lastSettled # Null /\ ~isSending
    /\ lastData # Null /\ ~Get(lastData).ok

\* C5: a send attempt with empty or whitespace-only text, with no user or
\* with no active chat changes none of messages, chats, activeChat and the
\* sending flag and issues no request.
C5_SilentNoOp ==
    [][(/\ lastAttempt' # Null
        /\ \/ Trim(Get(lastAttempt').text) = <<>>
           \/ user = Null
           \/ Get(user).username = ""
           \/ activeChat = Null)
       => UNCHANGED <<messages, chats, activeChat, isSending, sends, fetches,
                      creates>>]_vars

\* C6: the assistant message appended for a reply carries ranked_products as
\* its product list, in its products field and in what the page renders,
\* whenever the response has ranked_products; styled_products only when the
\* response has no ranked_products.
C6_RankedPreferred ==
    (lastResult # Null /\ Get(lastResult).kind = "json"
        /\ Get(lastResult).response # <<>>) =>
      /\ LastMsg.role = "assistant"
      /\ LastMsg.content = Get(lastResult).response
      /\ Get(lastResult).ranked_products \in {"[]", "[r]"} =>
           /\ LastMsg.products = Get(lastResult).ranked_products
           /\ RenderedProducts(LastMsg) = Get(lastResult).ranked_products
      /\ LastMsg.products = "[s]" =>
           Get(lastResult).ranked_products \in {"undefined", "null"}
      /\ RenderedProducts(LastMsg) = "[s]" =>
           Get(lastResult).ranked_products \in {"undefined", "null"}

\* A reply with both product lists has been appended.
C6_Witness ==
    /\ lastResult # Null /\ Get(lastResult).kind = "json"
    /\ Get(lastResult).response # <<>>
    /\ Get(lastResult).ranked_products = "[r]"
    /\ Get(lastResult).styled_products = "[s]"
    /\ LastMsg.products = "[r]"

\* C7: chats is always a list, and it is the empty list after getChats has
\* resolved to a value that is not a list.
C7_ChatsIsAList ==
    /\ chats.isArray
    /\ (lastData # Null /\ Get(lastData).ok /\ ~Get(lastData).data.isArray)
         => chats = [isArray |-> TRUE, items |-> <<>>]

\* getChats has resolved to a value that is not a list.
C7_Witness ==
    lastData # Null /\ Get(lastData).ok /\ ~Get(lastData).data.isArray

\* C8: when sendChatMessage rejects, the send settles with exactly one
\* assistant message appended: the photo explanation, with a navigation
\* scheduled, if the error message contains "upload at least one photo", and
\* "Error: <message>" with no navigation otherwise.
C8_RejectionRendered ==
    [][(lastResult' # Null /\ Get(lastResult').kind = "error") =>
         /\ lastSettled' # Null /\ ~isSending'
         /\ Len(messages') = Len(messages) + 1
         /\ SubSeq(messages', 1, Len(messages)) = messages
         /\ messages'[Len(messages')].role = "assistant"
         /\ IF \E i \in 1..Len(Get(lastResult').message) :
                  Get(lastResult').message[i] = "upload at least one photo"
            THEN /\ messages'[Len(messages')].content = PhotoExplanation
                 /\ timers' = timers + 1
            ELSE /\ messages'[Len(messages')].content =
                       <<"Error: ">> \o Get(lastResult').message
                 /\ timers' = timers]_vars

\* A rejection with the photo error has been rendered and the navigation is
\* pending.
C8_Witness ==
    /\ lastResult # Null /\ Get(lastResult).kind = "error"
    /\ Get(lastResult).message = <<"Please ", "upload at least one photo", " first">>
    /\ LastMsg.content = PhotoExplanation
    /\ timers > 0

\* The chats of a getChats result that are the chat c (same identifiers).
SameChat(c, d) ==
    c.chat_room_id = d.chat_room_id /\ c.id = d.id /\ c.chat_id = d.chat_id

\* C9: after a send has succeeded and its follow-up getChats has resolved
\* with the chat list, messages is the message list the server returned for
\* the active chat.
C9_ConvergesToServer ==
    (/\ lastSettled # Null
     /\ Get(lastSettled).outcome \in {"reply", "empty"}
     /\ lastData # Null /\ Get(lastData).ok /\ Get(lastData).data.isArray
     /\ activeChat # Null) =>
       \A i \in 1..Len(Get(lastData).data.items) :
          SameChat(Get(lastData).data.items[i], Get(activeChat)) =>
             messages = MessagesOf(Get(lastData).data.items[i])

\* C10 as stated: every send that has settled has issued its getChats
\* refetch.
C10_RefetchAlways ==
    lastSettled # Null => Get(lastSettled).refetched

\* C10 as amended: a send has issued its getChats refetch before it settles
\* exactly when its sendChatMessage call resolved with an object, with or
\* without a reply; a send whose call failed settles without a refetch.
C10_RefetchOnSuccess ==
    lastSettled # Null =>
      /\ Get(lastSettled).refetched <=> Get(lastSettled).outcome \in {"reply", "empty"}
      /\ Get(lastSettled).refetched <=> lastData # Null
      /\ Get(lastSettled).outcome = "error" <=> lastResult # Null

\* A send with an empty reply has settled after its refetch.
C10_Witness ==
    /\ lastSettled # Null /\ Get(lastSettled).outcome = "empty"
    /\ Get(lastSettled).refetched /\ lastData # Null

\* C11: for a user with photos and no chats, chats is empty, activeChat is
\* null and messages is empty until a chat is created, and every send
\* attempt until then is a no-op; whenever a getChats call resolves with the
\* empty list, chats becomes empty, activeChat null and messages empty.
C11_ZeroChats ==
    /\ []((Mounted /\ server = "nochats" /\ nCreates = 0) =>
            (chats = Array(<<>>) /\ activeChat = Null /\ messages = <<>>))
    /\ [][(/\ lastData' # Null
           /\ Get(lastData').ok /\ Get(lastData').data.isArray
           /\ Get(lastData').data.items = <<>>) =>
            (chats' = Array(<<>>) /\ activeChat' = Null /\ messages' = <<>>)]_vars
    /\ [][(server = "nochats" /\ nCreates = 0 /\ lastAttempt' # Null) =>
            (/\ Get(lastAttempt').verdict # "accepted"
             /\ UNCHANGED <<messages, chats, activeChat, isSending, sends>>)]_vars

\* The initial fetches of a user without chats have completed and a send
\* with a text has been attempted.
C11_Witness ==
    /\ server = "nochats" /\ nCreates = 0
    /\ effects = "done" /\ fetches = <<>>
    /\ Get(user).photo_urls = "[p]"
    /\ lastAttempt # Null
    /\ Trim(Get(lastAttempt).text) # <<>>
    /\ Get(lastAttempt).verdict = "missing"
    /\ activeChat = Null /\ messages = <<>> /\ sends = {}

\* C12: while the page is entered with a user whose profile has no photo
\* references, no getChats request is in flight.
C12_NoFetchWithoutPhotos ==
    (stored # Null /\ Get(stored).photo_urls \in {"undefined", "[]"}) =>
        fetches = <<>>

\* C13: the request of every accepted send carries the trimmed text, the
\* user's identifier and the thread identifier of the chat that is active
\* when the send is accepted.
C13_RequestForActiveChat ==
    [][(nSends' = nSends + 1) =>
         \E s \in sends' :
            /\ s.id = nSends'
            /\ lastAttempt' # Null
            /\ s.body.message = Trim(Get(lastAttempt').text)
            /\ messages'[Len(messages')] = UserMsg(s.body.message)
            /\ s.body.user_id = UserIdOf(Get(user))
            /\ activeChat # Null
            /\ s.body.thread_id = ThreadIdOf(Get(activeChat))]_vars

\* The call has settled.
ApiSettled == api.pc = "settled" /\ api.result # Null

\* The arguments a function requires to be strings with content.
RequiredStrings(fn) ==
    {i \in 1..Len(ApiParams(fn)) : ApiParams(fn)[i] \in {"trimmed", "truthy"}}

\* C14: a call of an API client function with a required string argument
\* that is empty or only whitespace fails with an Error and issues no HTTP
\* request.
C14_BlankArgumentRejected ==
    (/\ ApiSettled
     /\ \E i \in RequiredStrings(api.fn) : Trim(api.args[i]) = <<>>)
        => (/\ ~Get(api.result).ok
            /\ Get(api.result).error.type = "Error"
            /\ ~Get(api.result).requested)

\* C15: on a non-success status the call fails with an Error whose message
\* is the message field of the JSON error body when the body parses and has
\* one, and otherwise a text containing the HTTP status text.
C15_MessageFieldSurfaced ==
    (ApiSettled /\ api.http # Null /\ Get(api.http).kind = "status")
        => LET http == Get(api.http)
               error == Get(api.result).error
           IN /\ ~Get(api.result).ok
              /\ error.type = "Error"
              /\ IF http.body.parses /\ http.body.message # Null
                 THEN error.message = Get(http.body.message)
                 ELSE Includes(error.message, http.statusText)

\* C15, amended: on a non-success status the call always fails; when the
\* body is JSON null it fails with the TypeError of reading a field of
\* null; otherwise it fails with an Error whose message is the non-empty
\* detail field of the parsed body (for every function but login, likeImage
\* and createChat), else its non-empty message field, else a text ending
\* with the HTTP status text.
C15_DetailThenMessage ==
    (ApiSettled /\ api.http # Null /\ Get(api.http).kind = "status")
        => LET http == Get(api.http)
               body == http.body
               error == Get(api.result).error
               has(f) == body.parses /\ f # Null /\ Get(f) # <<>>
           IN /\ ~Get(api.result).ok
              /\ Get(api.result).requested
              /\ IF body.parses /\ body.isNull THEN error.type = "TypeError"
                 ELSE /\ error.type = "Error"
                      /\ IF /\ api.fn \notin {"login", "likeImage", "createChat"}
                            /\ has(body.detail)
                         THEN error.message = Get(body.detail)
                         ELSE IF has(body.message)
                         THEN error.message = Get(body.message)
                         ELSE /\ Len(error.message) = 2
                              /\ error.message[2] = http.statusText

\* A function that reads detail failed on a body carrying both fields.
C15_Witness ==
    /\ ApiSettled
    /\ api.fn = "sendChatMessage"
    /\ api.http # Null
    /\ Get(api.http).kind = "status"
    /\ Get(api.http).body.detail = Some(<<"d">>)
    /\ Get(api.http).body.message = Some(<<"m">>)
    /\ Get(api.result).error.message = <<"d">>

\* C16: when the request gets no response, the call fails with the generic
\* connectivity error, whose message starts with "Network error: ".
C16_NetworkErrorGeneric ==
    (/\ ApiSettled
     /\ api.http # Null
     /\ Get(api.http).kind = "rejected"
     /\ Get(api.http).isError)
        => (/\ ~Get(api.result).ok
            /\ Get(api.result).error.type = "Error"
            /\ Get(api.result).error.message[1] = "Network error: ")

\* C17: a like from the Chat page, whether likeImage succeeds, fails its
\* validation or is rejected, leaves messages, chats, activeChat and the
\* sending flag as they were and its error is caught.
C17_LikeChangesNothing ==
    [][lastLike' # "none" =>
        /\ UNCHANGED <<messages, chats, activeChat, isSending>>
        /\ UNCHANGED <<sends, timers, location>>
        /\ lastLike' \in {"skipped", "liked", "invalid", "rejected"}]_vars

\* A like was rejected by the server while a send was in flight.
C17_Witness ==
    /\ lastLike = "rejected"
    /\ isSending
    /\ messages # <<>>

\* C18: when a recording ends with an empty final transcript the send
\* protocol is not entered (no attempt, no message, no request, sending flag
\* as it was) and the recording flag is false; when it ends with a
\* non-empty transcript the trimmed transcript is handed to the send
\* protocol in that step, and a voice send is attempted in no other step.
C18_TranscriptHandedOnce ==
    /\ [][lastEnded' # Null =>
           /\ ~isRecording'
           /\ \E g \in recognitions :
                /\ recognitions' = recognitions \ {g}
                /\ g.finalTranscript = Get(lastEnded')
           /\ IF Trim(Get(lastEnded')) = <<>>
              THEN /\ lastAttempt' = Null
                   /\ UNCHANGED <<messages, sends, nSends, isSending>>
              ELSE /\ lastAttempt' # Null
                   /\ Get(lastAttempt').text = Trim(Get(lastEnded'))
                   /\ nSends' \in {nSends, nSends + 1}]_vars
    /\ [][(variant = "voice" /\ lastAttempt' # Null) => lastEnded' # Null]_vars

\* A recording has just ended without a final transcript in a chat that
\* would have accepted a send.
C18_Witness ==
    /\ lastEnded = Some(<<>>)
    /\ activeChat # Null
    /\ user # Null
    /\ ~isSending
    /\ ~isRecording
    /\ lastAttempt = Null
    /\ sends = {}

\* C19: when textToSpeech or playAudio fails after a reply, the step that
\* catches the failure appends no message and starts no timer, the
\* assistant message of the reply stays among the messages appended, the send goes on to its getChats refetch with the sending flag
\* still set, and every voice send that settles after a reply has issued
\* its refetch and leaves the sending flag false.
C19_AudioFailureIgnored ==
    /\ [][lastAudio' \in {"ttsFailed", "playFailed"} =>
           /\ UNCHANGED <<messages, timers, isSending, chats, activeChat>>
           /\ \E t \in sends :
                /\ t.pc = "textToSpeech"
                /\ t.outcome = "reply"
                /\ t.assistantAppended >= 1
                /\ [t EXCEPT !.pc = "getChats", !.refetched = TRUE] \in sends'
           /\ lastSettled' = Null]_vars
    /\ []((/\ variant = "voice"
           /\ lastSettled # Null
           /\ Get(lastSettled).outcome = "reply") =>
             (Get(lastSettled).refetched /\ ~isSending))

\* The speech output of a reply has just failed: the reply is the last
\* message and the send waits for its refetch.
C19_Witness ==
    /\ lastAudio \in {"ttsFailed", "playFailed"}
    /\ isSending
    /\ messages # <<>>
    /\ LastMsg.role = "assistant"
    /\ LastMsg.content = <<"r">>
    /\ \E t \in sends : t.pc = "getChats" /\ t.refetched

\* C20: after each successful profile save, photo upload or photo delete
\* on the Dashboard, the stored 'user' item is the updated record: it equals
\* the in-memory user of the mounted Dashboard, and it is the record the
\* server answered with (save, upload) or carries the photo list the server
\* answered with (delete).
C20_StoredIsUpdatedUser ==
    (dash.last # Null /\ Get(dash.last).success) =>
        /\ stored # Null
        /\ DashMounted => dash.user = stored
        /\ IF Get(dash.last).kind = "delete"
           THEN Get(stored).photo_urls =
                    Or(Get(dash.last).result.photo_urls, "[]")
           ELSE Get(stored) = Get(dash.last).result.user

\* A delete has succeeded on the mounted Dashboard and the stored record
\* carries the emptied photo list.
C20_Witness ==
    /\ DashMounted
    /\ dash.last # Null
    /\ Get(dash.last).success
    /\ Get(dash.last).kind = "delete"
    /\ Get(dash.last).result.photo_urls = "[]"
    /\ Get(dash.last).closureUser.region = "undefined"
    /\ Get(stored).region = "undefined"
    /\ Get(stored).photo_urls = "[]"

\* C21: while no user record is stored, neither page holds a user or has a
\* backend request in flight, and whatever a page entered without a stored
\* record does next takes the browser to /login, with no request issued, the
\* user state still null and nothing stored.
C21_NoUserRedirectsToLogin ==
    /\ [](stored = Null =>
            /\ user = Null /\ dash.user = Null
            /\ fetches = <<>> /\ creates = {} /\ sends = {}
            /\ dash.ops = {})
    /\ [][(stored = Null /\ location \in {"/chat", "/dashboard"}) =>
            /\ location' = "/login"
            /\ stored' = Null
            /\ user' = Null /\ dash'.user = Null
            /\ fetches' = <<>> /\ creates' = {} /\ sends' = {}
            /\ dash'.ops = {}]_vars

\* The Dashboard was entered after a log-out and its mount effect has sent
\* the browser to /login.
C21_Witness ==
    /\ stored = Null
    /\ location = "/login"
    /\ dash.last = DashRedirected
    /\ dash.user = Null
    /\ user = Null

\* C22: every step that changes messages either appends exactly one message
\* at the end, or replaces the whole list: a chat fetch or a chat selection
\* installs the messages of the chat it makes active (a fetch of the empty
\* list installs none), a created chat starts empty, and leaving the page
\* discards the list.
C22_AppendOrReplace ==
    [][messages' # messages =>
        \/ /\ Len(messages') = Len(messages) + 1
           /\ SubSeq(messages', 1, Len(messages)) = messages
        \/ /\ lastData' # Null
           /\ IF activeChat' = Null THEN messages' = <<>>
              ELSE messages' = MessagesOf(Get(activeChat'))
        \/ /\ nSelects' = nSelects + 1
           /\ messages' = MessagesOf(Get(activeChat'))
        \/ /\ creates' # creates /\ Mounted'
           /\ messages' = <<>>
        \/ /\ ~Mounted'
           /\ messages' = <<>>]_vars

\* A reply has just been appended behind the user message of its send, in
\* a list that already held the messages of the chat.
C22_Witness ==
    /\ lastResult # Null
    /\ Len(messages) >= 3
    /\ LastMsg.role = "assistant"
    /\ messages[Len(messages) - 1].role = "user"
    /\ activeChat # Null
    /\ SubSeq(messages, 1, Len(messages) - 2) = MessagesOf(Get(activeChat))

\* C23: activeChat is null or a chat with the same identifiers is in chats.
C23_ActiveChatInChats ==
    activeChat # Null =>
        \E i \in 1..Len(chats.items) : SameChat(chats.items[i], Get(activeChat))

\* C24: when a getChats call resolves with one or more chats, the step that
\* processes it makes the first chat active with its messages if no chat is
\* active at that time, and leaves activeChat and messages as they are if a
\* chat is active at that time.
C24_FirstChatOnlyWhenNoneActive ==
    [][(/\ lastData' # Null
        /\ Get(lastData').ok
        /\ Get(lastData').data.isArray
        /\ Len(Get(lastData').data.items) > 0) =>
          IF activeChat = Null
          THEN /\ activeChat' = Some(Get(lastData').data.items[1])
               /\ messages' = MessagesOf(Get(lastData').data.items[1])
          ELSE UNCHANGED <<activeChat, messages>>]_vars

\* C25: a chat selection makes a chat of the list active, replaces messages
\* with the messages that chat carries (none if it carries none), issues no
\* backend request and leaves chats and the sending flag unchanged.
C25_SelectionIsLocal ==
    [][nSelects' = nSelects + 1 =>
        /\ \E i \in 1..Len(chats.items) :
             /\ activeChat' = Some(chats.items[i])
             /\ messages' = IF chats.items[i].messages = Null THEN <<>>
                            ELSE Get(chats.items[i].messages)
        /\ UNCHANGED <<chats, isSending, fetches, creates, sends, timers>>]_vars

\* The chat with a server history was selected while a send was in flight.
C25_Witness ==
    /\ nSelects = 1
    /\ activeChat = Some(ChatB)
    /\ messages = <<ServerMsg>>
    /\ isSending
    /\ Outstanding # {}

\* C26: the step that processes the response of a send appends its
\* assistant message (the reply, or the error message) to the end of
\* messages as it is then and leaves the active chat alone, whatever chat is
\* active; only a response without a reply text appends nothing.
C26_LateReplyAppendedToCurrent ==
    [][lastResult' # Null =>
        /\ UNCHANGED <<activeChat, chats>>
        /\ IF Get(lastResult').kind = "json" /\ Get(lastResult').response = <<>>
           THEN UNCHANGED messages
           ELSE /\ Len(messages') = Len(messages) + 1
                /\ SubSeq(messages', 1, Len(messages)) = messages
                /\ messages'[Len(messages')].role = "assistant"
                /\ Get(lastResult').kind = "json" =>
                     messages'[Len(messages')].content = Get(lastResult').response]_vars

\* messages, shown for chat B, ends with the reply to a send that was made
\* for chat A: B was selected while the send was in flight.
C26_Witness ==
    /\ lastResult # Null
    /\ Get(lastResult).kind = "json"
    /\ activeChat = Some(ChatB)
    /\ Len(messages) = 2
    /\ messages[1] = ServerMsg
    /\ LastMsg.role = "assistant"
    /\ LastMsg.content = Get(lastResult).response
    /\ \E s \in sends :
         /\ s.outcome = "reply"
         /\ s.body.thread_id = ThreadIdOf(ChatA)
         /\ s.body.thread_id # ThreadIdOf(Get(activeChat))

\* C27: the step in which a createChat call settles either leaves chats,
\* activeChat and messages unchanged (the call failed), or puts the new chat
\* behind every chat that was in chats before the step, makes it active and
\* empties messages.
C27_CreateKeepsChats ==
    [][(Mounted' /\ \E c \in creates : creates' = creates \ {c}) =>
        \/ UNCHANGED <<chats, activeChat, messages>>
        \/ /\ Len(chats'.items) = Len(chats.items) + 1
           /\ SubSeq(chats'.items, 1, Len(chats.items)) = chats.items
           /\ activeChat' = Some(chats'.items[Len(chats'.items)])
           /\ messages' = <<>>]_vars

\* C28: the step that processes a rejected getChats call empties chats,
\* leaves activeChat and messages as they are, appends no message and
\* starts no timer; when the call was the refetch of a send, the send
\* settles in that step as a successful one and the sending flag is false.
C28_RejectedFetchEmptiesChats ==
    [][(lastData' # Null /\ ~Get(lastData').ok) =>
        /\ chats' = Array(<<>>)
        /\ UNCHANGED <<activeChat, messages, timers, location>>
        /\ (\E s \in sends : s.pc = "getChats" /\ s \notin sends') =>
             /\ lastSettled' # Null
             /\ Get(lastSettled').outcome \in {"reply", "empty"}
             /\ Get(lastSettled').refetched
             /\ ~isSending']_vars

\* The refetch of a send that got its reply was rejected: the reply is
\* still the last message, the list of chats is empty and a chat is active.
C28_Witness ==
    /\ lastData # Null
    /\ ~Get(lastData).ok
    /\ lastSettled # Null
    /\ Get(lastSettled).outcome = "reply"
    /\ chats = Array(<<>>)
    /\ activeChat # Null
    /\ LastMsg.role = "assistant"
    /\ LastMsg.content = <<"r">>
    /\ ~isSending

\* C29: a save, upload or delete that the API client rejects leaves the
\* stored record, the in-memory user and the photo list unchanged and sets
\* an error message; an upload of a file that is not an image or is too
\* large and a delete whose key cannot be extracted do the same without
\* issuing a request; and the uploading flag is false once a save or an
\* upload has finished.
C29_FailureChangesNothing ==
    /\ [][(/\ dash'.last # Null
           /\ Get(dash'.last).kind \in {"save", "upload", "delete"}
           /\ Get(dash'.last).result.kind = "error") =>
            /\ ~Get(dash'.last).success
            /\ stored' = stored
            /\ DashMounted =>
                 /\ dash'.user = dash.user
                 /\ dash'.userPhotos = dash.userPhotos
                 /\ dash'.error # ""]_vars
    /\ [][(/\ DashMounted' /\ dash'.last = Null
           /\ dash'.error # dash.error /\ dash'.error # "") =>
            /\ dash'.ops = dash.ops
            /\ dash'.nOps = dash.nOps
            /\ stored' = stored
            /\ dash'.user = dash.user
            /\ dash'.userPhotos = dash.userPhotos
            /\ dash'.uploading = dash.uploading]_vars
    /\ [][(/\ dash'.last # Null
           /\ Get(dash'.last).kind \in {"save", "upload"}) =>
            ~dash'.uploading]_vars

\* A save has just been rejected on the mounted Dashboard.
C29_Witness ==
    /\ DashMounted
    /\ dash.last # Null
    /\ Get(dash.last).kind = "save"
    /\ Get(dash.last).result.kind = "error"
    /\ dash.error = "save"
    /\ ~dash.uploading
    /\ dash.user = stored
    /\ dash.isEditing

\* C30: a photo delete that completes successfully changes only the photo
\* list of the stored record: the other fields stay as the operation that
\* completed last before it had stored them.
C30_DeleteKeepsLaterWrites ==
    [][(/\ dash'.last # Null
        /\ Get(dash'.last).kind = "delete"
        /\ Get(dash'.last).success
        /\ stored # Null) =>
          /\ stored' # Null
          /\ Get(stored') =
               [Get(stored) EXCEPT
                  !.photo_urls = Or(Get(dash'.last).result.photo_urls, "[]")]]_vars

====
